---- MODULE Spec2Model ----
(***************************************************************************)
(* Model of src/collecto.py: the Django view `info` that looks a Collecto  *)
(* stop up in a WFS feature collection, downloads two images and builds a  *)
(* PDF with ReportLab.                                                     *)
(*                                                                         *)
(* One behaviour of the model is one request.  The handler is cut at its   *)
(* network exchanges: Query (lines 245-258), ResolveImage1 (264-266),      *)
(* ResolveImage2 (268-270) and BuildAndRespond (272-281).                  *)
(*                                                                         *)
(* Python values are tagged records, strings are sequences of characters   *)
(* (one-character TLA+ strings); texts built by f-strings are sequences of *)
(* pieces, a literal piece being one TLA+ string.  Lengths are integers in *)
(* units of 1/127 point, so that both the point (127) and the centimetre   *)
(* (3600) are whole numbers; the ratio 0.66 is the fraction 66/100.        *)
(***************************************************************************)
EXTENDS Integers, Sequences, FiniteSets, TLC

VARIABLES
    pc,         \* position of the handler: "query", "image1", "image2", "build", "done"
    stop,       \* the <str:stop> argument of info
    net,        \* the latest network exchange: what was asked and what came back
    feature,    \* info's local `feature` (line 247)
    props,      \* info's local `props` (line 258)
    img1_bytes, \* info's local `img1_bytes`
    img2_bytes, \* info's local `img2_bytes`
    story,      \* _build_pdf's local `story` (lines 190-236)
    ops,        \* log of the external operations performed so far
    response    \* what info returned

vars == <<pc, stop, net, feature, props, img1_bytes, img2_bytes, story, ops, response>>

----------------------------------------------------------------------------
(* Bounds of the model *)

\* Longest feature collection the feature service returns.
MaxFeatures == 2

----------------------------------------------------------------------------
(* Python values *)

\* A key that is missing from a mapping.
Absent == [tag |-> "absent"]
\* JSON null, Python None.
Null == [tag |-> "null"]
StrV(s) == [tag |-> "str", chars |-> s]
IntV(n) == [tag |-> "int", num |-> n]

DigitChars == <<"0", "1", "2", "3", "4", "5", "6", "7", "8", "9">>

RECURSIVE Digits(_)
Digits(n) == IF n < 10 THEN <<DigitChars[n + 1]>>
             ELSE Digits(n \div 10) \o <<DigitChars[(n % 10) + 1]>>

\* str(v), and the formatting of v inside an f-string.
PyStr(v) ==
    CASE v.tag = "str"  -> v.chars
      [] v.tag = "null" -> <<"N", "o", "n", "e">>
      [] v.tag = "int"  -> Digits(v.num)

\* Truth value of v in `if v:` and `v or default`.
Truthy(v) ==
    CASE v.tag = "str"  -> v.chars # <<>>
      [] v.tag = "null" -> FALSE
      [] v.tag = "int"  -> v.num # 0
      [] v.tag = "bytes" -> v.len # 0

Whitespace == {" ", "\t"}

RECURSIVE LStrip(_)
LStrip(s) == IF s # <<>> /\ Head(s) \in Whitespace THEN LStrip(Tail(s)) ELSE s

RECURSIVE RStrip(_)
RStrip(s) == IF s # <<>> /\ s[Len(s)] \in Whitespace
             THEN RStrip(SubSeq(s, 1, Len(s) - 1)) ELSE s

\* str.strip()
Strip(s) == RStrip(LStrip(s))

\* mapping.get(key, default): the default only when the key is missing.
GetDefault(m, key, default) == IF m[key] = Absent THEN default ELSE m[key]

\* mapping.get(key): None when the key is missing.
Get(m, key) == GetDefault(m, key, Null)

----------------------------------------------------------------------------
(* Features *)

TextKeys == {"name_fr", "name_nl", "housenr", "road_fr", "road_nl", "mu_fr", "mu_nl"}
PropKeys == {"code_stop", "gid", "image_stop"} \cup TextKeys

\* The empty mapping {} of `f.get("properties") or {}`.
EmptyProps == [k \in PropKeys |-> Absent]

ABC == <<"A", "B", "C">>

\* code_stop: missing, null, "ABC", " ABC ", "abc", and the JSON number 42.
CodeValues ==
    { Absent, Null, StrV(ABC), StrV(<<" ">> \o ABC \o <<" ">>), StrV(<<"a", "b", "c">>),
      IntV(42) }

\* The properties of a record besides code_stop.
RestA == [k \in PropKeys |->
            CASE k = "gid" -> IntV(7)
              [] k = "image_stop" -> StrV(<<"p", ".", "j", "p", "g">>)
              [] k = "code_stop" -> Absent
              [] OTHER -> StrV(<<"x">>)]
RestB == [k \in PropKeys |->
            CASE k = "image_stop" -> StrV(<<>>)
              [] OTHER -> Absent]
RestC == [k \in PropKeys |->
            CASE k = "code_stop" -> Absent
              [] k = "image_stop" -> StrV(<<"q", ".", "p", "n", "g">>)
              [] OTHER -> Null]
RestD == [k \in PropKeys |->
            CASE k = "gid" -> IntV(0)
              [] k = "image_stop" -> Absent
              [] k = "code_stop" -> Absent
              [] k \in {"name_fr", "road_nl"} -> Null
              [] k \in {"name_nl", "mu_fr"} -> Absent
              [] OTHER -> StrV(<<"y">>)]

Rests == {RestA, RestB, RestC, RestD}

\* A feature is a JSON object with members besides "properties" (its "type",
\* its "geometry"), so it is true in `if not feature`; the model keeps its
\* "properties" member, which is a mapping, or Null when the member is null
\* or missing.
Features ==
    { [properties |-> Null] } \cup
    { [properties |-> [r EXCEPT !["code_stop"] = c]] : c \in CodeValues, r \in Rests }

RECURSIVE SeqsUpTo(_, _)
SeqsUpTo(S, n) ==
    IF n = 0 THEN {<<>>}
    ELSE LET shorter == SeqsUpTo(S, n - 1)
         IN  shorter \cup { Append(s, x) : s \in {t \in shorter : Len(t) = n - 1}, x \in S }

\* The "features" member of the service's answer; a null or missing member
\* reads as the empty list (`data.get("features") or []`).
Collections == SeqsUpTo(Features, MaxFeatures)

\* Requested codes: "ABC", " ABC ", "abc", "None", "42" and a single blank
\* (the <str:stop> converter of the route accepts no empty string).
Stops == { ABC, <<" ">> \o ABC \o <<" ">>, <<"a", "b", "c">>,
           <<"N", "o", "n", "e">>, <<"4", "2">>, <<" ">> }

----------------------------------------------------------------------------
(* _fetch_collecto_feature_by_code, lines 77-94 *)

\* `f.get("properties") or {}` (lines 91 and 258)
PropsOf(f) == IF f.properties = Null THEN EmptyProps ELSE f.properties

\* The test of line 92.
Matches(f, stop_code) ==
    Strip(PyStr(GetDefault(PropsOf(f), "code_stop", StrV(<<>>)))) = Strip(stop_code)

\* The loop of lines 90-94 from position i on: the position of the feature
\* returned, 0 when the loop ends without returning.
RECURSIVE ScanFrom(_, _, _)
ScanFrom(features, stop_code, i) ==
    IF i > Len(features) THEN 0
    ELSE IF Matches(features[i], stop_code) THEN i
    ELSE ScanFrom(features, stop_code, i + 1)

\* What the function returns on a parsed answer: a feature, or Null for None.
FetchFeature(features, stop_code) ==
    LET i == ScanFrom(features, stop_code, 1)
    IN  IF i = 0 THEN Null ELSE features[i]

\* How the query of lines 87-89 can end.  "http_error" is raise_for_status
\* raising requests.HTTPError; "bad_json" is r.json() raising; "not_object"
\* is a body that parses to something without .get (line 90 raises).
WfsFailures == {"timeout", "connection_error", "http_error", "bad_json", "not_object"}

WfsAnswers ==
    { [kind |-> k, features |-> <<>>] : k \in WfsFailures } \cup
    { [kind |-> "ok", features |-> c] : c \in Collections }

----------------------------------------------------------------------------
(* Image buffers and _download_image, lines 97-103 *)

\* A byte buffer as ReportLab sees it: its length, whether ImageReader can
\* read its header, the intrinsic size the header states, and whether the
\* pixel data decode when the document is built.
Bytes(len, header, iw, ih, body) ==
    [tag |-> "bytes", len |-> len, header |-> header, iw |-> iw, ih |-> ih, body |-> body]

EmptyBuffer == Bytes(0, "unreadable", 0, 0, "undecodable")
GarbageBuffer == Bytes(9, "unreadable", 0, 0, "undecodable")
ZeroWidthBuffer == Bytes(9, "readable", 0, 500, "decodable")
ZeroHeightBuffer == Bytes(9, "readable", 1000, 0, "decodable")
TruncatedBuffer == Bytes(9, "readable", 1000, 500, "undecodable")
ValidBuffer == Bytes(9, "readable", 1000, 500, "decodable")

Buffers == { EmptyBuffer, GarbageBuffer, ZeroWidthBuffer, ZeroHeightBuffer,
             TruncatedBuffer, ValidBuffer }

\* How the GET of line 99 and raise_for_status of line 100 can end.
FetchFailures == {"timeout", "connection_error", "http_error"}

FetchAnswers ==
    { [kind |-> k, content |-> Null] : k \in FetchFailures } \cup
    { [kind |-> "ok", content |-> b] : b \in Buffers }

\* Variant: an empty body is reported as None.
DownloadImageDroppingEmpty(answer) ==
    IF answer.kind \in FetchFailures \/ answer.content.len = 0
    THEN Null ELSE answer.content

\* The value _download_image returns for an answer.
DownloadImage(answer) ==
    IF answer.kind \in FetchFailures THEN Null ELSE answer.content

----------------------------------------------------------------------------
(* Layout constants, lines 30-31 and 60-72 *)

\* One point and one centimetre (reportlab.lib.units: cm = 72 / 2.54 points).
pt == 127
cm == 3600

\* reportlab.lib.pagesizes.A4 = (210 mm, 297 mm)
A4 == <<21 * cm, (297 * cm) \div 10>>

LEFT_RIGHT_MARGIN == 2 * cm
TOP_BOTTOM_MARGIN == (16 * cm) \div 10
TITLE_FONT_SIZE == 20 * pt
BODY_FONT_SIZE == 11 * pt

\* The ratios 1.0 and 0.66 as fractions <<numerator, denominator>>.
FIRST_IMAGE_WIDTH_RATIO == <<1, 1>>
SECOND_IMAGE_WIDTH_RATIO == <<66, 100>>

FIRST_IMAGE_PLACEHOLDER_HEIGHT == 8 * cm
SECOND_IMAGE_PLACEHOLDER_HEIGHT == 6 * cm

\* x * ratio
Times(x, ratio) == (x * ratio[1]) \div ratio[2]

----------------------------------------------------------------------------
(* Flowables *)

\* A flowable of the story.  The height is the fraction hnum / hden.
Flowable(kind, text, style, width, hnum, hden, stream) ==
    [kind |-> kind, text |-> text, style |-> style, width |-> width,
     hnum |-> hnum, hden |-> hden, stream |-> stream, keep |-> FALSE]

Paragraph(text, style) == Flowable("paragraph", text, style, 0, 0, 1, Null)
Spacer(width, height) == Flowable("spacer", <<>>, "", width, height, 1, Null)
Image(stream, width, hnum, hden) == Flowable("image", <<>>, "", width, hnum, hden, stream)
KeepTogether(flowable) == [flowable EXCEPT !.keep = TRUE]

\* _placeholder_box, lines 128-143: a one-cell table holding the label.
PlaceholderBox(width_pts, height_pts, label) ==
    Flowable("placeholder", <<label>>, "grey box", width_pts, height_pts, 1, Null)

\* Variant: the test of lines 115-116 is missing.
ScalingRaisesOnUnreadableOnly(img_bytes) == img_bytes.header # "readable"

\* _scaled_image_flowable, lines 106-125: whether it raises (ImageReader on
\* an unreadable header, or the ValueError of line 116) ...
ScalingRaises(img_bytes) ==
    \/ img_bytes.header # "readable"
    \/ img_bytes.iw = 0
    \/ img_bytes.ih = 0

\* ... and the flowable it returns otherwise: w = target width, h = ih * w / iw.
ScaledImageFlowable(img_bytes, target_width_pts) ==
    LET w == IF target_width_pts > 0 THEN target_width_pts ELSE img_bytes.iw * pt
    IN  Image(img_bytes, w, img_bytes.ih * w, img_bytes.iw)

----------------------------------------------------------------------------
(* _build_pdf, lines 146-239 *)

\* props.get(key, "") inside an f-string.
Field(p, key) == PyStr(GetDefault(p, key, StrV(<<>>)))

\* usable_width, line 159
UsableWidth == A4[1] - LEFT_RIGHT_MARGIN - LEFT_RIGHT_MARGIN

\* Variant: the second image takes the first image's ratio.
Img2TargetWFullWidth == Times(UsableWidth, FIRST_IMAGE_WIDTH_RATIO)

\* img1_target_w and img2_target_w, lines 198 and 228
Img1TargetW == Times(UsableWidth, FIRST_IMAGE_WIDTH_RATIO)
Img2TargetW == Times(UsableWidth, SECOND_IMAGE_WIDTH_RATIO)

\* Lines 199-206 and 229-236: the image when there are bytes and scaling does
\* not raise, the placeholder otherwise.
ImageOrPlaceholder(img_bytes, target_w, placeholder_height, label) ==
    IF Truthy(img_bytes) /\ ~ScalingRaises(img_bytes)
    THEN ScaledImageFlowable(img_bytes, target_w)
    ELSE PlaceholderBox(target_w, placeholder_height, label)

FirstImageBlock(img1) ==
    ImageOrPlaceholder(img1, Img1TargetW, FIRST_IMAGE_PLACEHOLDER_HEIGHT,
                       "Map image unavailable")

SecondImageBlock(img2) ==
    LET b == ImageOrPlaceholder(img2, Img2TargetW, SECOND_IMAGE_PLACEHOLDER_HEIGHT,
                                "Stop photo unavailable")
    IN  IF b.kind = "image" THEN KeepTogether(b) ELSE b

TitleText(p) == <<"COLLECTO ">> \o Field(p, "code_stop")
NamesText(p) == Field(p, "name_fr") \o <<" - ">> \o Field(p, "name_nl")
AddressFrText(p) ==
    <<"<b>Adresse :</b> ">> \o Field(p, "housenr") \o <<", ">>
        \o Field(p, "road_fr") \o <<" - ">> \o Field(p, "mu_fr")
AddressNlText(p) ==
    <<"<b>Adres :</b> ">> \o Field(p, "road_nl") \o <<" ">>
        \o Field(p, "housenr") \o <<" - ">> \o Field(p, "mu_nl")

\* The story of lines 190-236.
Story(p, img1, img2) ==
    << Paragraph(TitleText(p), "TitleBig"),
       Spacer(1 * pt, 6 * pt),
       FirstImageBlock(img1),
       Spacer(1 * pt, 12 * pt),
       Paragraph(NamesText(p), "H2"),
       Spacer(1 * pt, 6 * pt),
       Paragraph(AddressFrText(p), "Body"),
       Spacer(1 * pt, 2 * pt),
       Paragraph(AddressNlText(p), "Body"),
       Spacer(1 * pt, 10 * pt),
       SecondImageBlock(img2) >>

\* doc.build(story), line 238, is outside the try blocks of lines 200-204 and
\* 230-234.  platypus.Image decodes its stream when the page is drawn, so a
\* stream whose pixel data do not decode raises there.
BuildRaises(flowables) ==
    \E i \in 1..Len(flowables) :
        flowables[i].kind = "image" /\ flowables[i].stream.body # "decodable"

\* buffer.getvalue(), line 239
PdfBytes(p, flowables) ==
    [tag |-> "pdf", title |-> <<"Collecto ">> \o Field(p, "code_stop"),
     flowables |-> flowables]

----------------------------------------------------------------------------
(* info, lines 242-281 *)

NoExchange == [op |-> "none", kind |-> "none", features |-> <<>>, content |-> Null]
Exchange(op, kind, features, content) ==
    [op |-> op, kind |-> kind, features |-> features, content |-> content]

NoResponse == [status |-> "none", pdf |-> Null, text |-> <<>>, filename |-> <<>>]
HttpResponse(pdf_bytes, filename) ==
    [status |-> "OK", pdf |-> pdf_bytes, text |-> <<>>, filename |-> filename]
HttpResponseNotFound(text) ==
    [status |-> "NotFound", pdf |-> Null, text |-> text, filename |-> <<>>]
HttpResponseServerError(text) ==
    [status |-> "ServerError", pdf |-> Null, text |-> text, filename |-> <<>>]

\* Variant: a failed query is answered like an unknown code.
WfsErrorAsNotFound(kind) ==
    HttpResponseNotFound(<<"Collecto stop not found: ", kind>>)

\* The handlers of lines 248-251; the exception's own text is one piece.
WfsErrorResponse(kind) ==
    IF kind = "http_error"
    THEN HttpResponseServerError(<<"WFS error: ", kind>>)
    ELSE HttpResponseServerError(<<"Could not query WFS: ", kind>>)

\* Line 278
Filename(p, stop_code) ==
    <<"collecto_">> \o PyStr(GetDefault(p, "code_stop", StrV(stop_code))) \o <<".pdf">>

\* Variant: the error response carries the document assembled so far.
BuildResponseWithPartialPdf(p, flowables, stop_code) ==
    IF BuildRaises(flowables)
    THEN [status |-> "ServerError", pdf |-> PdfBytes(p, flowables),
          text |-> <<"Failed to generate PDF: ", "cannot decode image">>,
          filename |-> <<>>]
    ELSE HttpResponse(PdfBytes(p, flowables), Filename(p, stop_code))

\* Lines 273-281: the ServerError when _build_pdf raises, the PDF otherwise.
BuildResponse(p, flowables, stop_code) ==
    IF BuildRaises(flowables)
    THEN HttpResponseServerError(<<"Failed to generate PDF: ", "cannot decode image">>)
    ELSE HttpResponse(PdfBytes(p, flowables), Filename(p, stop_code))

\* `gid is not None`, line 265
ShouldFetchMap(p) == Get(p, "gid") # Null
\* Variant: image_stop is tested like gid, with `is not None`.
ShouldFetchPhotoWhenNotNone(p) == Get(p, "image_stop") # Null

\* `if image_stop:`, line 269
ShouldFetchPhoto(p) == Truthy(Get(p, "image_stop"))

\* A GET request (require_GET, line 242) enters info with its stop code.
Init ==
    /\ pc = "query"
    /\ stop \in Stops
    /\ net = NoExchange
    /\ feature = Null
    /\ props = EmptyProps
    /\ img1_bytes = Null
    /\ img2_bytes = Null
    /\ story = <<>>
    /\ ops = <<>>
    /\ response = NoResponse

\* Lines 245-258: the query, the scan, and the two early returns.
Query ==
    /\ pc = "query"
    /\ \E answer \in WfsAnswers :
         LET found == FetchFeature(answer.features, stop)
         IN  /\ net' = Exchange("query", answer.kind, answer.features, Null)
             /\ IF answer.kind \in WfsFailures
                THEN /\ response' = WfsErrorResponse(answer.kind)
                     /\ ops' = ops \o <<"query", "respond">>
                     /\ pc' = "done"
                     /\ UNCHANGED <<feature, props>>
                ELSE IF found = Null
                THEN /\ response' = HttpResponseNotFound(
                            <<"Collecto stop with code_stop='">> \o stop
                                \o <<"' not found in the dataset.">>)
                     /\ ops' = ops \o <<"query", "respond">>
                     /\ pc' = "done"
                     /\ feature' = Null
                     /\ UNCHANGED props
                ELSE /\ feature' = found
                     /\ props' = PropsOf(found)
                     /\ ops' = Append(ops, "query")
                     /\ pc' = "image1"
                     /\ UNCHANGED response
    /\ UNCHANGED <<stop, img1_bytes, img2_bytes, story>>

\* Lines 261 and 264-266
ResolveImage1 ==
    /\ pc = "image1"
    /\ IF ShouldFetchMap(props)
       THEN \E answer \in FetchAnswers :
                /\ net' = Exchange("fetch_map", answer.kind, <<>>, answer.content)
                /\ img1_bytes' = DownloadImage(answer)
                /\ ops' = Append(ops, "fetch_map")
       ELSE /\ img1_bytes' = Null
            /\ UNCHANGED <<net, ops>>
    /\ pc' = "image2"
    /\ UNCHANGED <<stop, feature, props, img2_bytes, story, response>>

\* Lines 262 and 268-270
ResolveImage2 ==
    /\ pc = "image2"
    /\ IF ShouldFetchPhoto(props)
       THEN \E answer \in FetchAnswers :
                /\ net' = Exchange("fetch_photo", answer.kind, <<>>, answer.content)
                /\ img2_bytes' = DownloadImage(answer)
                /\ ops' = Append(ops, "fetch_photo")
       ELSE /\ img2_bytes' = Null
            /\ UNCHANGED <<net, ops>>
    /\ pc' = "build"
    /\ UNCHANGED <<stop, feature, props, img1_bytes, story, response>>

\* Lines 272-281
BuildAndRespond ==
    /\ pc = "build"
    /\ story' = Story(props, img1_bytes, img2_bytes)
    /\ response' = BuildResponse(props, story', stop)
    /\ ops' = ops \o <<"build", "respond">>
    /\ pc' = "done"
    /\ UNCHANGED <<stop, net, feature, props, img1_bytes, img2_bytes>>

Next == Query \/ ResolveImage1 \/ ResolveImage2 \/ BuildAndRespond

Spec == Init /\ [][Next]_vars

----------------------------------------------------------------------------
(* Vocabulary of the properties *)

Range(seq) == { seq[i] : i \in 1..Len(seq) }
Min(S) == CHOOSE x \in S : \A y \in S : x <= y

\* The request has ended.
Done == pc = "done"
\* The lookup returned a record.
Resolved == feature # Null
\* _build_pdf has assembled its story.
Composed == story # <<>>
\* The story without its spacers.
Blocks == SelectSeq(story, LAMBDA b : b.kind # "spacer")

QuerySucceeded == net.op = "query" /\ net.kind = "ok"

\* A record's code_stop as the specification reads it: a missing attribute
\* is the empty string; a null one is the empty string too (nullIsEmpty) or
\* has no value and equals no code.
SpecMatches(f, stop_code, nullIsEmpty) ==
    LET v == PropsOf(f)["code_stop"]
    IN  CASE v = Absent -> Strip(stop_code) = <<>>
          [] v = Null   -> nullIsEmpty /\ Strip(stop_code) = <<>>
          [] OTHER      -> Strip(PyStr(v)) = Strip(stop_code)

SpecMatching(features, stop_code, nullIsEmpty) ==
    { i \in 1..Len(features) : SpecMatches(features[i], stop_code, nullIsEmpty) }

\* An attribute in a text as the specification reads it: the empty string
\* when it is missing or null.
SpecField(p, key) == IF p[key] \in {Absent, Null} THEN <<>> ELSE PyStr(p[key])

\* An image buffer whose intrinsic size can be read and is not zero.
Scalable(img) ==
    /\ img # Null
    /\ img.len > 0
    /\ img.header = "readable"
    /\ img.iw # 0
    /\ img.ih # 0

FixedSequence == <<"query", "fetch_map", "fetch_photo", "build", "respond">>
Position(op) == CHOOSE i \in 1..Len(FixedSequence) : FixedSequence[i] = op
IsPrefix(s, t) == Len(s) <= Len(t) /\ s = SubSeq(t, 1, Len(s))
InFixedOrder(s) ==
    /\ Range(s) \subseteq Range(FixedSequence)
    /\ \A i, j \in 1..Len(s) : i < j => Position(s[i]) < Position(s[j])
WithoutRespond(s) == SelectSeq(s, LAMBDA op : op # "respond")

----------------------------------------------------------------------------
(* C1 *)

\* C1: once the lookup has returned a record, whatever the two image
\* buffers are, the request ends with OK and PDF bytes, never ServerError.
C1_ImagesNeverPreventDelivery ==
    (Done /\ Resolved) => (response.status = "OK" /\ response.pdf # Null)

----------------------------------------------------------------------------
(* C2 *)

C2_Reading(nullIsEmpty) ==
    QuerySucceeded =>
        LET M == SpecMatching(net.features, stop, nullIsEmpty)
        IN  /\ M # {} => feature = net.features[Min(M)]
            /\ Resolved => SpecMatches(feature, stop, nullIsEmpty)

\* C2: after a successful query the record returned is the first one of the
\* collection whose trimmed code_stop equals the trimmed requested code, and
\* the code_stop of a returned record equals the requested code after
\* trimming (under either reading of a null code_stop).
C2_FirstTrimmedMatch == C2_Reading(TRUE) \/ C2_Reading(FALSE)

----------------------------------------------------------------------------
(* C3 *)

\* C3: a query that fails at transport level ends the request with
\* ServerError and a non-empty diagnostic, never NotFound or OK, and nothing
\* is composed.
C3_QueryFailureIsServerError ==
    (net.op = "query" /\ net.kind \in WfsFailures) =>
        /\ Done
        /\ response.status = "ServerError"
        /\ \E i \in 1..Len(response.text) : response.text[i] # ""
        /\ response.pdf = Null
        /\ ~Composed

C3_Witness ==
    /\ net.op = "query"
    /\ net.kind = "timeout"
    /\ Done
    /\ response.status = "ServerError"

----------------------------------------------------------------------------
(* C4 *)

C4_Reading(nullIsEmpty) ==
    (Done /\ QuerySucceeded /\ SpecMatching(net.features, stop, nullIsEmpty) = {}) =>
        (response.status = "NotFound" /\ response.pdf = Null)

\* C4: when no record of a successfully returned collection has the
\* requested code after trimming, the request ends with NotFound and no PDF
\* (under either reading of a null code_stop).
C4_NoMatchIsNotFound == C4_Reading(TRUE) \/ C4_Reading(FALSE)

----------------------------------------------------------------------------
(* C5 *)

Fetched == net.op \in {"fetch_map", "fetch_photo"}
FetchResult == IF net.op = "fetch_map" THEN img1_bytes ELSE img2_bytes

\* C5 as claimed: the fetcher returns bytes exactly for a successful answer
\* with a non-empty body, and None for every other answer.
C5_EmptyBodyIsAbsent ==
    Fetched =>
        (FetchResult # Null <=> (net.kind = "ok" /\ net.content.len > 0))

\* C5: the fetcher never ends the request; it returns None exactly when the
\* fetch fails (timeout, connection error, non-success status) and returns
\* the body of a successful answer as it is, the empty body included.
C5_FailureIsAbsent ==
    Fetched =>
        /\ FetchResult = Null <=> net.kind \in FetchFailures
        /\ net.kind = "ok" => FetchResult = net.content
        /\ pc \in {"image2", "build", "done"}
        /\ Done => "build" \in Range(ops)

C5_Witness ==
    /\ net.op = "fetch_map"
    /\ net.kind = "ok"
    /\ net.content = EmptyBuffer
    /\ img1_bytes = EmptyBuffer

----------------------------------------------------------------------------
(* C6 *)

\* C6: the map is fetched only for a record with a gid, the photo only for a
\* record with a non-empty image_stop; a record without gid and with the
\* empty image_stop causes no fetch and yields both labelled placeholders.
C6_FetchOnlyWhenAttributePresent ==
    /\ "fetch_map" \in Range(ops) => props["gid"] \notin {Absent, Null}
    /\ "fetch_photo" \in Range(ops) => props["image_stop"] \notin {Absent, Null, StrV(<<>>)}
    /\ (Done /\ Resolved /\ props["gid"] = Absent /\ props["image_stop"] = StrV(<<>>)) =>
            /\ Range(ops) \cap {"fetch_map", "fetch_photo"} = {}
            /\ response.status = "OK"
            /\ \E i \in 1..Len(response.pdf.flowables) :
                    /\ response.pdf.flowables[i].kind = "placeholder"
                    /\ response.pdf.flowables[i].text = <<"Map image unavailable">>
            /\ \E i \in 1..Len(response.pdf.flowables) :
                    /\ response.pdf.flowables[i].kind = "placeholder"
                    /\ response.pdf.flowables[i].text = <<"Stop photo unavailable">>
            /\ \A i \in 1..Len(response.pdf.flowables) :
                    response.pdf.flowables[i].kind # "image"

C6_Witness ==
    /\ Done
    /\ Resolved
    /\ props["gid"] = Absent
    /\ props["image_stop"] = StrV(<<>>)
    /\ response.status = "OK"
    /\ ops = <<"query", "build", "respond">>

----------------------------------------------------------------------------
(* C7 *)

\* C7 as claimed: the width of block 2 is exactly two thirds of the usable
\* width.
C7_ExactlyTwoThirds ==
    Composed => 3 * Blocks[6].width = 2 * (A4[1] - 2 * cm - 2 * cm)

\* C7: the width of block 2, image or placeholder, is 0.66 times the usable
\* width.
C7_SixtySixHundredths ==
    Composed => 100 * Blocks[6].width = 66 * (A4[1] - 2 * cm - 2 * cm)

C7_Witness ==
    /\ Composed
    /\ Blocks[6].kind = "image"
    /\ Blocks[6].stream = ValidBuffer
    /\ response.status = "OK"

----------------------------------------------------------------------------
(* C8 *)

\* C8: a text attribute that is missing or null appears in the title, the
\* names line and the two address paragraphs as the empty string.
C8_MissingOrNullIsEmpty ==
    Composed =>
        /\ Blocks[1].text = <<"COLLECTO ">> \o SpecField(props, "code_stop")
        /\ Blocks[3].text =
                SpecField(props, "name_fr") \o <<" - ">> \o SpecField(props, "name_nl")
        /\ Blocks[4].text =
                <<"<b>Adresse :</b> ">> \o SpecField(props, "housenr") \o <<", ">>
                    \o SpecField(props, "road_fr") \o <<" - ">> \o SpecField(props, "mu_fr")
        /\ Blocks[5].text =
                <<"<b>Adres :</b> ">> \o SpecField(props, "road_nl") \o <<" ">>
                    \o SpecField(props, "housenr") \o <<" - ">> \o SpecField(props, "mu_nl")

----------------------------------------------------------------------------
(* C9 *)

\* C9 as claimed: the operations performed, the response aside, are a prefix
\* of query, map fetch, photo fetch, compose.
C9_PrefixOfFixedSequence ==
    IsPrefix(WithoutRespond(ops), WithoutRespond(FixedSequence))

\* C9: the operations performed are taken from query, map fetch, photo
\* fetch, compose, response in that order, each at most once; fetches and
\* composition happen only after the query returned a record; the request
\* ends with exactly one outcome, and PDF bytes go with OK and only with OK.
C9_ForwardOnlyOnce ==
    /\ InFixedOrder(ops)
    /\ ops # <<>> => ops[1] = "query"
    /\ Range(ops) \cap {"fetch_map", "fetch_photo", "build"} # {} => Resolved
    /\ (Done /\ ~Resolved) => ops = <<"query", "respond">>
    /\ Done <=> "respond" \in Range(ops)
    /\ Done <=> response.status \in {"OK", "NotFound", "ServerError"}
    /\ ~Done => response = NoResponse
    /\ response.pdf # Null <=> response.status = "OK"

C9_Witness ==
    /\ Done
    /\ ops = <<"query", "fetch_photo", "build", "respond">>
    /\ response.status = "OK"

----------------------------------------------------------------------------
(* C10 *)

\* C10: the story is title, block 1, names line, French address, Dutch
\* address, block 2; block k is the scaled image exactly when its buffer is
\* present and its intrinsic size is readable and not zero, and otherwise
\* the placeholder of its position, with its label and height.
C10_BlockSequence ==
    Composed =>
        /\ Len(Blocks) = 6
        /\ Blocks[1].kind = "paragraph" /\ Blocks[1].style = "TitleBig"
        /\ Head(Blocks[1].text) = "COLLECTO "
        /\ Blocks[3].kind = "paragraph" /\ Blocks[3].style = "H2"
        /\ Blocks[4].kind = "paragraph" /\ Head(Blocks[4].text) = "<b>Adresse :</b> "
        /\ Blocks[5].kind = "paragraph" /\ Head(Blocks[5].text) = "<b>Adres :</b> "
        /\ IF Scalable(img1_bytes)
           THEN Blocks[2].kind = "image" /\ Blocks[2].stream = img1_bytes
           ELSE /\ Blocks[2].kind = "placeholder"
                /\ Blocks[2].text = <<"Map image unavailable">>
                /\ Blocks[2].hnum = 8 * cm /\ Blocks[2].hden = 1
        /\ IF Scalable(img2_bytes)
           THEN Blocks[6].kind = "image" /\ Blocks[6].stream = img2_bytes
           ELSE /\ Blocks[6].kind = "placeholder"
                /\ Blocks[6].text = <<"Stop photo unavailable">>
                /\ Blocks[6].hnum = 6 * cm /\ Blocks[6].hden = 1

C10_Witness ==
    /\ Composed
    /\ img1_bytes = ZeroHeightBuffer
    /\ img2_bytes = ValidBuffer
    /\ Blocks[2].kind = "placeholder"
    /\ Blocks[6].kind = "image"

====
